---------------------------- MODULE Spec2Model ----------------------------
(***************************************************************************)
(* Model of the search-campaign controller of MS-Rewards-Farmer            *)
(* (src/src/searches.py, class Searches): the rotation ledger of search    *)
(* terms, the seen-URL store, the result extractor, the results sink and   *)
(* the campaign runner with its per-term retry loop.                       *)
(*                                                                         *)
(* Abstractions, stated once:                                              *)
(*  - the category lists (MAJOR_CRYPTOS, OTHER_CRYPTOS, MEME_COINS) are     *)
(*    abridged; the abridgement keeps the grouping and the fact that an    *)
(*    entry of OTHER_CRYPTOS occurs again in MEME_COINS ("uni crypto" and  *)
(*    "sei crypto" in the source); NEWS_SOURCES is abridged to the empty   *)
(*    list, so that each coin contributes its "news" term only;            *)
(*  - a search term f"{term} {source} {search_filters}" is the pair        *)
(*    <<term, source>>: the filter suffix is the same constant string for  *)
(*    every term;                                                          *)
(*  - timestamps of records are left out;                                  *)
(*  - a JSON file is its parsed value plus a status: absent, corrupt or    *)
(*    json.                                                                *)
(***************************************************************************)
EXTENDS Integers, Sequences, FiniteSets, Bags, TLC

(***************************************************************************)
(* Bounds of the exploration.                                              *)
(***************************************************************************)
MaxWords == 3
MaxPoints == 1
NumUrls == 9
MaxExtracts == 2

(***************************************************************************)
(* Helpers on sequences.                                                   *)
(***************************************************************************)
Range(s) == {s[k] : k \in 1..Len(s)}

Min(a, b) == IF a < b THEN a ELSE b

RemoveAt(s, j) == SubSeq(s, 1, j - 1) \o SubSeq(s, j + 1, Len(s))

RECURSIVE BagOfSeq(_)
BagOfSeq(s) == IF s = <<>> THEN EmptyBag
               ELSE SetToBag({Head(s)}) (+) BagOfSeq(Tail(s))

Count(x, s) == Cardinality({k \in 1..Len(s) : s[k] = x})

\* s is t with some elements left out
RECURSIVE IsSubseq(_, _)
IsSubseq(s, t) ==
    IF s = <<>> THEN TRUE
    ELSE IF t = <<>> THEN FALSE
    ELSE IF Head(s) = Head(t) THEN IsSubseq(Tail(s), Tail(t))
    ELSE IsSubseq(s, Tail(t))

(***************************************************************************)
(* Term universe: Searches.__init__.                                       *)
(***************************************************************************)
NEWS_SOURCES == <<>>

MAJOR_CRYPTOS == <<"bitcoin">>

OTHER_CRYPTOS == <<"uni crypto">>

MEME_COINS == <<"mog crypto", "uni crypto">>

RECURSIVE add_with_sources(_)
add_with_sources(term_list) ==
    IF term_list = <<>> THEN <<>>
    ELSE << <<Head(term_list), "news">> >>
         \o [k \in 1..Len(NEWS_SOURCES) |-> <<Head(term_list), NEWS_SOURCES[k]>>]
         \o add_with_sources(Tail(term_list))

CRYPTO_SEARCH_TERMS ==
    add_with_sources(MAJOR_CRYPTOS) \o add_with_sources(OTHER_CRYPTOS)
        \o add_with_sources(MEME_COINS)

(***************************************************************************)
(* JSON files.                                                             *)
(***************************************************************************)
\* none: the empty value of the file's type (<<>> for a list, {} for a set)
AbsentFile(none) == [st |-> "absent", data |-> none]

CorruptFile(none) == [st |-> "corrupt", data |-> none]

JsonFile(v) == [st |-> "json", data |-> v]

\* open(path, 'w') + json.dump: the write succeeds, or open fails and the
\* file keeps its content, or the dump fails after the truncation.
WriteFile(old, v, outcome, none) ==
    CASE outcome = "ok" -> JsonFile(v)
      [] outcome = "open_failed" -> old
      [] OTHER -> CorruptFile(none)

ReliableWrites == {"ok"}

AllWrites == {"ok", "open_failed", "partial"}

VARIABLES
    remaining_terms,   \* self.remaining_terms: the ledger, a list
    terms_file,        \* logs/remaining_crypto_terms.json
    used,              \* history: bag of the terms returned in the current cycle
                       \*   (at construction: the terms the loaded ledger lacks)
    wordsCount,        \* history: argument of the last getCryptoList call
    selected_terms,    \* history: result of the last getCryptoList call
    did_reset,         \* history: the last getCryptoList call reset the ledger
    last_save,         \* history: how the last write of the last getCryptoList
                       \*   call of this instance ended ("none": no call yet)
    terms_writer,      \* history: the account whose instance changed
                       \*   terms_file last ("none": nobody yet)
    last_trends        \* history: the fetch attempts of the last
                       \*   getGoogleTrends call and searchTerms as its loop
                       \*   left it

termVars == <<remaining_terms, terms_file, used, wordsCount, selected_terms,
              did_reset, last_save, terms_writer, last_trends>>

VARIABLES
    test_mode,         \* self.test_mode = browser.args.test
    pc,                \* position of the runner: idle, loop, search, result,
                       \*   done (bingSearches returned), returned (executeBot
                       \*   went on after the call)
    numberOfSearches,  \* argument of bingSearches
    search_terms,      \* bingSearches: the terms obtained
    search_i,          \* bingSearches: the loop counter i
    attempt,           \* bingSearches: the consecutive-no-progress counter
    pointsCounter,     \* bingSearches: pointsCounter
    i,                 \* bingSearch: the retry counter i
    ret,               \* outcome of the bingSearch call that just ended
    ended,             \* how bingSearches ended: none, completed, no_terms, critical
    executed,          \* history: the words bingSearch was invoked with, in order
    tries,             \* history: attempts of the current bingSearch call
    refreshes,         \* history: webdriver.refresh calls made for the last term
    noprogress,        \* history: was the last processed term a no-progress event
    marked,            \* history: executeBot called mark_completed for the
                       \*   searches of the campaign that just returned
    try_stage          \* history: how far the try block had got when it
                       \*   executed its return statement, line 613
                       \*   ("none": the last iteration did not execute it)

campVars == <<test_mode, pc, numberOfSearches, search_terms, search_i, attempt,
              pointsCounter, i, ret, ended, executed, tries, refreshes,
              noprogress, marked, try_stage>>

VARIABLES
    seen_urls,         \* self.seen_urls: a set
    seen_file,         \* logs/seen_urls.json
    search_results,    \* self.search_results: the batches not yet saved
    results_file,      \* logs/crypto_search_results_<today>.json
    outputs,           \* history: bag of the URLs extractSearchResults returned
                       \*   in this process
    refed,             \* history: URLs fed again after this process extracted them
    last_soup,         \* history: the page of the last extractSearchResults call
    last_result,       \* history: what that call returned
    extracts,          \* history: number of extractSearchResults calls
    loaded_from,       \* history: what the seen-URLs file was when this
                       \*   instance loaded it (absent, corrupt or json)
    save_from,         \* history: what the last saveSearchResults call found
                       \*   (day file, pending batches) if it was the last
                       \*   thing done to the sink and it succeeded
    seen_writer,       \* history: the account whose instance changed
                       \*   seen_file last ("none": nobody yet)
    yesterday_file,    \* logs/crypto_search_results_<yesterday>.json
    last_op            \* history: the last operation on the seen-URL store

extVars == <<seen_urls, seen_file, search_results, results_file, outputs,
             refed, last_soup, last_result, extracts, loaded_from, save_from,
             seen_writer, yesterday_file, last_op>>

VARIABLES
    account            \* the account of the browser this instance was built for

VARIABLES
    peer               \* a second Searches instance, of another process run
                       \*   in the same directory: is it constructed, its
                       \*   remaining_terms, the result of its last
                       \*   getCryptoList call and whether that call reset;
                       \*   last: history, which instance called
                       \*   getCryptoList last ("none": a construction since)

VARIABLES
    completion_status, \* main: the CompletionStatus tracker, the set of the
                       \*   <<account, category>> marked completed today
    job                \* main.process_account_with_retry and executeBot: the
                       \*   account, the accounts still to come, the position
                       \*   (stage), retries, remainingSearches(M); history:
                       \*   executeBot invocations and returns, CSV rows,
                       \*   updates of previous_points_data, failure
                       \*   notifications, executions per category (runs, and
                       \*   ran_now for the current invocation), how the
                       \*   last invocation returned, the tracker as loaded

sideVars == <<peer, completion_status, job>>

vars == <<termVars, campVars, extVars, account, sideVars>>

(***************************************************************************)
(* Searches._load_remaining_terms / _save_remaining_terms.                 *)
(***************************************************************************)
LoadKeepsEmpty(file) ==
    IF file.st = "json" THEN file.data ELSE CRYPTO_SEARCH_TERMS

_load_remaining_terms(file) ==
    IF file.st = "json" /\ file.data # <<>> THEN file.data
    ELSE CRYPTO_SEARCH_TERMS

SaveKeepsEarlier(file, terms, outcome) ==
    IF file.st = "json" THEN file ELSE WriteFile(file, terms, outcome, <<>>)

SaveSkipped(file, terms, outcome) == file

_save_remaining_terms(file, terms, outcome) ==
    WriteFile(file, terms, outcome, <<>>)

(***************************************************************************)
(* Searches.getCryptoList.                                                 *)
(***************************************************************************)
\* The loop of random.randrange + pop: every way of popping k terms.
RECURSIVE Picks(_, _)
Picks(rem, k) ==
    IF k = 0 THEN {<< <<>>, rem >>}
    ELSE UNION { { << <<rem[j]>> \o r[1], r[2] >> :
                     r \in Picks(RemoveAt(rem, j), k - 1) } :
                 j \in 1..Len(rem) }

TakeWholeLedger(n, rem) == Len(rem)

TakeCount(n, rem) == Min(n, Len(rem))

\* Every result of getCryptoList(n) on ledger rem and file f, the two saves
\* ending as o1 (after a reset) and o2 (after the take).
getCryptoList(rem, f, n, o1, o2) ==
    LET reset == rem = <<>>
        rem0  == IF reset THEN CRYPTO_SEARCH_TERMS ELSE rem
        f0    == IF reset THEN _save_remaining_terms(f, rem0, o1) ELSE f
        k     == IF n < 0 THEN 0 ELSE TakeCount(n, rem0)
    IN { [selected |-> p[1], remaining |-> p[2],
          file |-> _save_remaining_terms(f0, p[2], o2), reset |-> reset] :
         p \in Picks(rem0, k) }

GetCryptoList(n, outcomes) ==
    \E o1 \in outcomes, o2 \in outcomes :
    \E r \in getCryptoList(remaining_terms, terms_file, n, o1, o2) :
        /\ remaining_terms' = r.remaining
        /\ terms_file' = r.file
        /\ selected_terms' = r.selected
        /\ wordsCount' = n
        /\ did_reset' = r.reset
        /\ last_save' = o2
        /\ terms_writer' = IF r.file # terms_file THEN account
                           ELSE terms_writer
        /\ used' = IF r.reset THEN BagOfSeq(r.selected)
                   ELSE used (+) BagOfSeq(r.selected)
        /\ UNCHANGED last_trends

(***************************************************************************)
(* Searches.getGoogleTrends.  A fetch answers with a status other than 200 *)
(* or raises (continue), answers without the expected keys, or answers     *)
(* with queries, which are appended and then passed through list(set()),   *)
(* whose order is arbitrary.  A fetch that raises while its queries are    *)
(* being appended leaves them appended as they are.                        *)
(***************************************************************************)
max_retries == 3

TrendQuery(name) == <<name, "trend">>

FetchOutcomes ==
    { [kind |-> "status", queries |-> <<>>],
      [kind |-> "structure", queries |-> <<>>],
      [kind |-> "ok", queries |-> <<TrendQuery("a")>>],
      [kind |-> "ok",
       queries |-> <<TrendQuery("b"), TrendQuery("a"), TrendQuery("b")>>],
      [kind |-> "raise", queries |-> <<>>],
      [kind |-> "raise", queries |-> <<TrendQuery("a"), TrendQuery("a")>>] }

\* the lists list(set(...)) can produce
Orderings(S) ==
    { f \in [1..Cardinality(S) -> S] :
        \A j \in 1..Cardinality(S), k \in 1..Cardinality(S) :
            f[j] = f[k] => j = k }

AfterFetch(searchTerms, o) ==
    CASE o.kind = "ok" -> Orderings(Range(searchTerms \o o.queries))
      [] o.kind = "raise" -> {searchTerms \o o.queries}
      [] OTHER -> {searchTerms}

LoopRetriesOnceMore(c) == c <= max_retries

\* i < max_retries
LoopGoesOn(c) == c < max_retries

\* s[:n] of Python
Slice(s, n) ==
    IF n >= 0 THEN SubSeq(s, 1, Min(n, Len(s)))
    ELSE SubSeq(s, 1, IF Len(s) + n > 0 THEN Len(s) + n ELSE 0)

RECURSIVE TrendsLoop(_, _, _)
\* while len(searchTerms) < wordsCount and i < max_retries: every outcome
TrendsLoop(searchTerms, c, n) ==
    IF Len(searchTerms) < n /\ LoopGoesOn(c)
    THEN UNION { TrendsLoop(st, c + 1, n) :
                 st \in UNION { AfterFetch(searchTerms, o) :
                                o \in FetchOutcomes } }
    ELSE {[fetched |-> searchTerms, fetches |-> c]}

getGoogleTrends(n) ==
    { [terms |-> Slice(IF r.fetched = <<>> THEN Slice(CRYPTO_SEARCH_TERMS, n)
                       ELSE r.fetched, n),
       fetched |-> r.fetched, fetches |-> r.fetches] :
      r \in TrendsLoop(<<>>, 0, n) }

GetGoogleTrends(n) ==
    \E r \in getGoogleTrends(n) :
        /\ selected_terms' = r.terms
        /\ wordsCount' = n
        /\ last_trends' = [fetches |-> r.fetches, fetched |-> r.fetched]
        /\ UNCHANGED <<remaining_terms, terms_file, used, did_reset,
                       last_save, terms_writer>>

(***************************************************************************)
(* URLs and result pages.  A string is the sequence of its tokens, so that *)
(* Python's substring test is containment of a contiguous subsequence.     *)
(***************************************************************************)
Contains(str, sub) ==
    \E k \in 0..(Len(str) - Len(sub)) : SubSeq(str, k + 1, k + Len(sub)) = sub

\* blocked_domains of extractSearchResults
blocked_domains ==
    { <<"coinmarketcap", ".", "com">>, <<"coingecko", ".", "com">>,
      <<"crypto", ".", "com">>, <<"etoro", ".", "com">>,
      <<"tradingview", ".", "com">>, <<"binance", ".", "com">>,
      <<"coinbase", ".", "com">>, <<"kraken", ".", "com">>,
      <<"gemini", ".", "com">>, <<"bitfinex", ".", "com">>,
      <<"kucoin", ".", "com">>, <<"huobi", ".", "com">>,
      <<"okx", ".", "com">>, <<"bybit", ".", "com">>, <<"gate", ".", "io">>,
      <<"mexc", ".", "com">>, <<"livecoinwatch", ".", "com">>,
      <<"yahoo", ".", "com", "/", "quote">> }

\* A URL: its number n tells URLs of one host apart; wrap says how the link
\* is written: "none" is a plain link to host, "pct" a bing.com/ck/a link
\* whose u=a1 parameter is the percent-encoded target, "b64" one whose
\* parameter is not a URL after unquoting (base64 text).
BingHost == <<"www", ".", "bing", ".", "com">>

NewsHost == <<"news", ".", "com">>

GeckoHost == <<"www", ".", "coingecko", ".", "com">>

GoodUrl(n) == [n |-> n, wrap |-> "none", host |-> NewsHost]

BlockedUrl == [n |-> 0, wrap |-> "none", host |-> GeckoHost]

WrappedBlockedUrl == [n |-> 0, wrap |-> "pct", host |-> GeckoHost]

\* the redirect link as Bing writes it: u=a1 followed by the base64 text of
\* the target URL
Base64BlockedUrl == [n |-> 0, wrap |-> "b64", host |-> GeckoHost]

\* lines 299-309: the domain the blocklist is matched against
DomainOf(url) ==
    CASE url.wrap = "none" -> url.host
      [] url.wrap = "pct" -> url.host
      [] OTHER -> <<>>

IsBlocked(domain) == \E b \in blocked_domains : Contains(domain, b)

\* A result card <li class="b_algo">: kind "card" is well formed, "nolink"
\* has no <a> element, "malformed" makes the processing of the card raise.
Card(u) == [kind |-> "card", url |-> u]

NoLinkCard == [kind |-> "nolink", url |-> GoodUrl(0)]

MalformedCard == [kind |-> "malformed", url |-> GoodUrl(0)]

\* A parsed page: ok = FALSE makes soup.find_all raise.
Soup(cards) == [ok |-> TRUE, cards |-> cards]

EmptySoup == Soup(<<>>)

CardUrls(cards) == [k \in 1..Len(cards) |-> cards[k].url]

\* The pages the exploration feeds.
Window(a, len) == [k \in 1..len |-> Card(GoodUrl(a + k - 1))]

Pages ==
    { EmptySoup,
      Soup(Window(1, 1)),
      Soup(Window(1, 1) \o Window(1, 1)),
      Soup(<<Card(BlockedUrl)>> \o Window(2, 1)),
      Soup(<<NoLinkCard, MalformedCard, Card(WrappedBlockedUrl)>>
           \o Window(2, 1)),
      Soup(Window(1, NumUrls)),
      Soup(<<Card(Base64BlockedUrl)>>),
      [ok |-> FALSE, cards |-> <<>>] }

CampaignPages == {Soup(Window(1, 1))}

(***************************************************************************)
(* Searches._load_seen_urls / _save_seen_urls.  The file holds a JSON      *)
(* array that is loaded as a set: its value is kept as the set.            *)
(***************************************************************************)
LoadSeenStale(file) == IF file.st = "absent" THEN {} ELSE file.data \cup {GoodUrl(1)}

_load_seen_urls(file) == IF file.st = "json" THEN file.data ELSE {}

SaveSeenEmpty(file, seen, outcome) == WriteFile(file, {}, outcome, {})

_save_seen_urls(file, seen, outcome) == WriteFile(file, seen, outcome, {})

(***************************************************************************)
(* Searches.extractSearchResults.                                          *)
(***************************************************************************)
MaxResults == 8

CapReachedLate(processed) == processed > MaxResults

CapReached(processed) == processed >= MaxResults

IsSeenNever(url, seen) == FALSE

IsSeen(url, seen) == url \in seen

ResultData(url) == [url |-> url, source |-> DomainOf(url)]

\* the for loop over main_results
RECURSIVE ExtractLoop(_, _, _, _)
ExtractLoop(cards, seen, results, processed) ==
    IF cards = <<>> \/ CapReached(processed)
    THEN [results |-> results, seen |-> seen]
    ELSE LET c == Head(cards) IN
         IF \/ c.kind = "nolink"
            \/ IsSeen(c.url, seen)
            \/ IsBlocked(DomainOf(c.url))
            \/ c.kind = "malformed"
         THEN ExtractLoop(Tail(cards), seen, results, processed)
         ELSE ExtractLoop(Tail(cards), seen \cup {c.url},
                          Append(results, ResultData(c.url)), processed + 1)

ExtractCardUnguarded(soup, seen, file, outcome) ==
    IF ~soup.ok \/ \E k \in 1..Len(soup.cards) : soup.cards[k].kind = "malformed"
    THEN [results |-> <<>>, status |-> "error", seen |-> seen, file |-> file]
    ELSE LET r == ExtractLoop(soup.cards, seen, <<>>, 0) IN
         [results |-> r.results, status |-> "success", seen |-> r.seen,
          file |-> _save_seen_urls(file, r.seen, outcome)]

ExtractForgetsSeen(soup, seen, file, outcome) ==
    IF ~soup.ok
    THEN [results |-> <<>>, status |-> "error", seen |-> seen, file |-> file]
    ELSE LET r == ExtractLoop(soup.cards, seen, <<>>, 0) IN
         [results |-> r.results, status |-> "success",
          seen |-> Range(CardUrls(r.results)),
          file |-> _save_seen_urls(file, r.seen, outcome)]

\* returns the result list, the status, the new seen set and the new seen file
extractSearchResults(soup, seen, file, outcome) ==
    IF ~soup.ok
    THEN [results |-> <<>>, status |-> "error", seen |-> seen, file |-> file]
    ELSE LET r == ExtractLoop(soup.cards, seen, <<>>, 0) IN
         [results |-> r.results, status |-> "success", seen |-> r.seen,
          file |-> _save_seen_urls(file, r.seen, outcome)]

(***************************************************************************)
(* Searches.saveSearchResults.                                             *)
(***************************************************************************)
ExistingDropped(file) == <<>>

ExistingResults(file) == IF file.st = "json" THEN file.data ELSE <<>>

SaveFailureDropsPending(pending, rfile, seen, sfile, o1, o2) ==
    IF pending = <<>>
    THEN [pending |-> pending, rfile |-> rfile, sfile |-> sfile]
    ELSE IF o1 = "ok"
    THEN [pending |-> <<>>,
          rfile |-> WriteFile(rfile, ExistingResults(rfile) \o pending, o1,
                              <<>>),
          sfile |-> _save_seen_urls(sfile, seen, o2)]
    ELSE [pending |-> <<>>, rfile |-> WriteFile(rfile, <<>>, o1, <<>>),
          sfile |-> sfile]

SavePendingKept(pending, rfile, seen, sfile, o1, o2) ==
    IF pending = <<>>
    THEN [pending |-> pending, rfile |-> rfile, sfile |-> sfile]
    ELSE IF o1 = "ok"
    THEN [pending |-> pending,
          rfile |-> WriteFile(rfile, ExistingResults(rfile) \o pending, o1,
                              <<>>),
          sfile |-> _save_seen_urls(sfile, seen, o2)]
    ELSE [pending |-> pending, rfile |-> WriteFile(rfile, <<>>, o1, <<>>),
          sfile |-> sfile]

\* o1: the write of the day file, o2: the write of the seen-URL file
saveSearchResults(pending, rfile, seen, sfile, o1, o2) ==
    IF pending = <<>>
    THEN [pending |-> pending, rfile |-> rfile, sfile |-> sfile]
    ELSE IF o1 = "ok"
    THEN [pending |-> <<>>,
          rfile |-> WriteFile(rfile, ExistingResults(rfile) \o pending, o1,
                              <<>>),
          sfile |-> _save_seen_urls(sfile, seen, o2)]
    ELSE [pending |-> pending, rfile |-> WriteFile(rfile, <<>>, o1, <<>>),
          sfile |-> sfile]

(***************************************************************************)
(* Searches.bingSearch, lines 575-597: extract the page of the search for  *)
(* word and save the batch.                                                *)
(***************************************************************************)
\* timestamp (datetime.now()) is the number of extractions made so far; the
\* campaign specifications do not advance it
Batch(word, results) ==
    [search_term |-> word, timestamp |-> extracts, results |-> results]

\* the URLs of out (extracted by this process, now or before) that the page
\* feeds once more: a card of an already extracted URL, or two cards of a URL
RefedBy(cards, before, out) ==
    { u \in out :
        \/ u \in before /\ \E k \in 1..Len(cards) : cards[k] = Card(u)
        \/ Cardinality({k \in 1..Len(cards) : cards[k] = Card(u)}) >= 2 }

NoSave == [found |-> "none", existing |-> <<>>, pending |-> <<>>]

\* values of last_op: days and saved are the argument of a cleanup that
\* went through and whether its write of the seen-URLs file succeeded
Op(name) == [op |-> name, days |-> 0, saved |-> FALSE]

AppendAndSave(word, x, o2, o3) ==
    IF x.results # <<>>
    THEN saveSearchResults(Append(search_results, Batch(word, x.results)),
                           results_file, x.seen, x.file, o2, o3)
    ELSE [pending |-> search_results, rfile |-> results_file, sfile |-> x.file]

ProcessResults(word, soup, o1, o2, o3) ==
    \E x \in {extractSearchResults(soup, seen_urls, seen_file, o1)} :
    \E s \in {AppendAndSave(word, x, o2, o3)} :
       /\ seen_urls' = x.seen
       /\ seen_file' = s.sfile
       /\ search_results' = s.pending
       /\ results_file' = s.rfile
       /\ outputs' = outputs (+) BagOfSeq(CardUrls(x.results))
       /\ refed' = refed \cup RefedBy(soup.cards, BagToSet(outputs),
                                        BagToSet(outputs'))
       /\ last_soup' = soup
       /\ last_result' = [results |-> x.results, status |-> x.status]
       /\ seen_writer' = IF s.sfile # seen_file THEN account ELSE seen_writer
       /\ last_op' = Op("extract")
       /\ save_from' =
            IF x.results # <<>> /\ s.pending = <<>>
            THEN [found |-> results_file.st, existing |-> results_file.data,
                  pending |-> Append(search_results, Batch(word, x.results))]
            ELSE NoSave

(***************************************************************************)
(* External capabilities.                                                  *)
(***************************************************************************)
Points == 0..MaxPoints

\* browser.utils.getBingAccountPoints() returns a total or raises.
Raises == -1

PointsOutcomes == Points \cup {Raises}

\* class Browser defines no giveMeProxy: the call in bingSearch's timeout
\* handler raises AttributeError.
giveMeProxyRaises == TRUE

NoRet == [raised |-> FALSE, points |-> 0, aborted |-> FALSE]

NoResult == [results |-> <<>>, status |-> "success"]

(***************************************************************************)
(* Searches.__init__: a new instance (process restart, or the next         *)
(* Searches(...) of main.executeBot) reloads the ledger from its file.     *)
(***************************************************************************)
IdleCampaign ==
    /\ pc' = "idle"
    /\ numberOfSearches' = 0
    /\ search_terms' = <<>>
    /\ search_i' = 0
    /\ attempt' = 0
    /\ pointsCounter' = 0
    /\ i' = 0
    /\ ret' = NoRet
    /\ ended' = "none"
    /\ executed' = <<>>
    /\ tries' = 0
    /\ refreshes' = 0
    /\ noprogress' = FALSE
    /\ marked' = FALSE
    /\ try_stage' = "none"

\* main.main runs the accounts one after the other; every account's
\* Searches instance uses the same paths under logs/.
Accounts == {"A", "B"}

(***************************************************************************)
(* main: the task categories, the CompletionStatus tracker and the state   *)
(* of process_account_with_retry / executeBot for one account.             *)
(***************************************************************************)
PromoCategories == {"daily_set", "punch_cards", "more_promotions"}

SearchCategories == {"desktop_searches", "mobile_searches"}

Categories == PromoCategories \cup SearchCategories

loadedAccounts == <<"A", "B">>

\* CompletionStatus.is_completed and mark_completed
is_completed(status, acc, category) == <<acc, category>> \in status

mark_completed(status, acc, category) == status \cup {<<acc, category>>}

\* retries = 3
Retries == 3

NewJob(acc, rest, loaded) ==
    [account |-> acc, todo |-> rest, stage |-> "invoke", retries |-> Retries,
     remS |-> 0, remM |-> 0,
     invocations |-> 0, returned |-> 0, rows |-> 0, updated |-> 0,
     notified |-> 0, runs |-> [c \in Categories |-> 0], ran_now |-> {},
     exited |-> "none", loaded |-> loaded]

NoPeer == [alive |-> FALSE, remaining |-> <<>>, selected |-> <<>>,
           reset |-> FALSE, last |-> "none"]

\* rfile: the day file of the date of the construction, as it is found
ConstructOn(acc, rfile) ==
    /\ account' = acc
    /\ remaining_terms' = _load_remaining_terms(terms_file)
    /\ used' = BagOfSeq(CRYPTO_SEARCH_TERMS) (-) BagOfSeq(remaining_terms')
    /\ last_save' = "none"
    /\ UNCHANGED <<terms_file, wordsCount, selected_terms, did_reset,
                   terms_writer, last_trends>>
    /\ \E t \in BOOLEAN : test_mode' = t
    /\ IdleCampaign
    /\ seen_urls' = _load_seen_urls(seen_file)
    /\ search_results' = <<>>
    /\ results_file' = IF rfile.st = "absent" THEN JsonFile(<<>>) ELSE rfile
    /\ outputs' = EmptyBag
    /\ refed' = {}
    /\ last_soup' = EmptySoup
    /\ last_result' = NoResult
    /\ loaded_from' = seen_file.st
    /\ save_from' = NoSave
    /\ last_op' = Op("construct")
    /\ UNCHANGED <<seen_file, extracts, seen_writer>>

Construct(acc) ==
    /\ ConstructOn(acc, results_file)
    /\ UNCHANGED <<yesterday_file, sideVars>>

\* an instance constructed on the next calendar day: the day file of its
\* date does not exist yet, the day file used so far is yesterday's
NextDay ==
    /\ ConstructOn(account, AbsentFile(<<>>))
    /\ yesterday_file' = results_file
    /\ UNCHANGED sideVars

\* a new instance for the same account (restart, or the mobile searches)
NewSearches == Construct(account)

\* the instance of the next account of main's loop
NextAccount == \E acc \in Accounts \ {account} : Construct(acc)

Init ==
    /\ remaining_terms = CRYPTO_SEARCH_TERMS
    /\ terms_file = AbsentFile(<<>>)
    /\ used = EmptyBag
    /\ wordsCount = 0
    /\ selected_terms = <<>>
    /\ did_reset = FALSE
    /\ last_save = "none"
    /\ terms_writer = "none"
    /\ last_trends = [fetches |-> 0, fetched |-> <<>>]
    /\ test_mode \in BOOLEAN
    /\ pc = "idle"
    /\ numberOfSearches = 0
    /\ search_terms = <<>>
    /\ search_i = 0
    /\ attempt = 0
    /\ pointsCounter = 0
    /\ i = 0
    /\ ret = NoRet
    /\ ended = "none"
    /\ executed = <<>>
    /\ tries = 0
    /\ refreshes = 0
    /\ noprogress = FALSE
    /\ marked = FALSE
    /\ try_stage = "none"
    /\ seen_urls = {}
    /\ seen_file = AbsentFile({})
    /\ search_results = <<>>
    /\ results_file = JsonFile(<<>>)
    /\ outputs = EmptyBag
    /\ refed = {}
    /\ last_soup = EmptySoup
    /\ last_result = NoResult
    /\ extracts = 0
    /\ loaded_from = "absent"
    /\ save_from = NoSave
    /\ seen_writer = "none"
    /\ yesterday_file = AbsentFile(<<>>)
    /\ last_op = Op("construct")
    /\ account = "A"
    /\ peer = NoPeer
    /\ completion_status = {}
    /\ job = [NewJob(Head(loadedAccounts), loadedAccounts, {})
                EXCEPT !.stage = "boot"]

(***************************************************************************)
(* The term registry on its own: getCryptoList calls and restarts.         *)
(***************************************************************************)
TakeTerms ==
    /\ pc = "idle"
    /\ \E n \in 0..MaxWords : GetCryptoList(n, ReliableWrites)
    /\ UNCHANGED <<campVars, extVars, account, sideVars>>

NextTerms == TakeTerms \/ NewSearches

SpecTerms == Init /\ [][NextTerms]_vars

\* Requests that exceed the universe.
Oversized == Len(CRYPTO_SEARCH_TERMS) + 1

TakeOversized ==
    /\ pc = "idle"
    /\ GetCryptoList(Oversized, ReliableWrites)
    /\ UNCHANGED <<campVars, extVars, account, sideVars>>

NextOversized == TakeTerms \/ TakeOversized \/ NewSearches

SpecOversized == Init /\ [][NextOversized]_vars

\* The same with writes of the ledger file that may fail.
TakeTermsAnyWrite ==
    /\ pc = "idle"
    /\ \E n \in 0..MaxWords : GetCryptoList(n, AllWrites)
    /\ UNCHANGED <<campVars, extVars, account, sideVars>>

NextLedger == TakeTermsAnyWrite \/ NewSearches

SpecLedger == Init /\ [][NextLedger]_vars

(***************************************************************************)
(* Searches.bingSearches: start of a campaign (up to the per-term loop).   *)
(***************************************************************************)
EndCampaign(how) ==
    /\ pc' = "done"
    /\ ended' = how

\* source: self.search_source, which is args.search_source of the run; p0:
\* getBingAccountPoints() for initial_points; getOk: webdriver.get.
BingSearchesBegin(source, n, p0, getOk, outcomes) ==
    /\ pc = "idle"
    /\ numberOfSearches' = n
    /\ pointsCounter' = 0
    /\ search_i' = 0
    /\ attempt' = 0
    /\ UNCHANGED <<test_mode, i, ret, executed, tries, refreshes, noprogress,
                   marked, try_stage>>
    /\ UNCHANGED <<extVars, account, sideVars>>
    /\ IF ~test_mode /\ p0 = Raises
       THEN /\ EndCampaign("critical")
            /\ search_terms' = <<>>
            /\ UNCHANGED termVars
       ELSE /\ IF source = "trends" THEN GetGoogleTrends(n)
               ELSE GetCryptoList(n, outcomes)
            /\ search_terms' = selected_terms'
            /\ IF selected_terms' = <<>> THEN EndCampaign("no_terms")
               ELSE IF ~getOk THEN EndCampaign("critical")
               ELSE pc' = "loop" /\ ended' = "none"

\* for word in search_terms: i += 1; bingSearch(word) is entered; after the
\* last word bingSearches returns pointsCounter.
NextWord ==
    /\ pc = "loop"
    /\ IF search_i < Len(search_terms)
       THEN /\ search_i' = search_i + 1
            /\ executed' = Append(executed, search_terms[search_i + 1])
            /\ i' = 0
            /\ tries' = 0
            /\ pc' = "search"
            /\ UNCHANGED ended
       ELSE /\ EndCampaign("completed")
            /\ UNCHANGED <<search_i, executed, i, tries>>
    /\ UNCHANGED <<test_mode, numberOfSearches, search_terms, attempt,
                   pointsCounter, ret, refreshes, noprogress, marked,
                   try_stage>>
    /\ UNCHANGED <<termVars, extVars, account, sideVars>>

(***************************************************************************)
(* Searches.bingSearch: one iteration of the while True loop.              *)
(***************************************************************************)
\* return self.browser.utils.getBingAccountPoints(), which may itself raise;
\* aborted: the return is the one of an except handler (retry budget used up)
ReturnPoints(p, aborted) ==
    IF p = Raises THEN [raised |-> TRUE, points |-> 0, aborted |-> aborted]
    ELSE [raised |-> FALSE, points |-> p, aborted |-> aborted]

TimeoutProxyAt == 5

TimeoutAbortAt == 10

ErrorAbortAt == 10

\* The except TimeoutException handler at retry counter c: "raise" (the
\* exception of giveMeProxy leaves bingSearch), "return" or "retry".
OnTimeout(c) ==
    IF c = TimeoutProxyAt /\ giveMeProxyRaises THEN "raise"
    ELSE IF c = TimeoutAbortAt THEN "return"
    ELSE "retry"

\* The except Exception handler at retry counter c (already incremented).
OnError(c) == IF c >= ErrorAbortAt THEN "return" ELSE "retry"

\* does the iteration reach one of the three return statements, that is, is
\* getBingAccountPoints() called
Returns(outcome, c) ==
    \/ outcome = "ok"
    \/ outcome = "timeout" /\ OnTimeout(c) = "return"
    \/ outcome = "error" /\ OnError(c + 1) = "return"

HarvestsAlways(source) == TRUE

\* if self.search_source == "crypto": extract and save (line 576)
HarvestsResults(source) == source = "crypto"

TryBlockReturnsEarly(outcome, reached, dwelt) ==
    /\ outcome = "ok" => reached
    /\ dwelt => reached

\* The try block is straight-line code: the extraction and the save (lines
\* 575-597), then the dwell and the scrolls (599-611), then the return (613).
TryBlockOrder(outcome, reached, dwelt) ==
    /\ outcome = "ok" => dwelt
    /\ dwelt => reached

StageOf(reached, dwelt) ==
    IF dwelt THEN "dwelt" ELSE IF reached THEN "extracted" ELSE "typed"

\* outcome: what the try block did; p: the getBingAccountPoints() call made
\* by the return statement, if this iteration reaches one; reached: the try
\* block got as far as the extraction of the page soup (o1, o2, o3: the
\* writes of the extraction and of the save); dwelt: it got past the dwell
\* and the scrolls.
SearchAttempt(source, outcome, p, reached, dwelt, soup, o1, o2, o3) ==
    /\ pc = "search"
    /\ tries' = tries + 1
    /\ TryBlockOrder(outcome, reached, dwelt)
    /\ Returns(outcome, i) \/ p = 0
    /\ IF reached /\ HarvestsResults(source)
       THEN ProcessResults(search_terms[search_i], soup, o1, o2, o3)
       ELSE UNCHANGED <<seen_urls, seen_file, search_results, results_file,
                        outputs, refed, last_soup, last_result, save_from,
                        seen_writer, last_op>>
    /\ UNCHANGED <<extracts, loaded_from, yesterday_file>>
    /\ CASE outcome = "ok" ->
              /\ p # Raises
              /\ ret' = ReturnPoints(p, FALSE)
              /\ pc' = "result"
              /\ UNCHANGED i
         [] outcome = "timeout" ->
              CASE OnTimeout(i) = "raise" ->
                     /\ ret' = [raised |-> TRUE, points |-> 0, aborted |-> FALSE]
                     /\ pc' = "result"
                     /\ UNCHANGED i
                [] OnTimeout(i) = "return" ->
                     /\ ret' = ReturnPoints(p, TRUE)
                     /\ pc' = "result"
                     /\ UNCHANGED i
                [] OTHER ->
                     /\ i' = i + 1
                     /\ UNCHANGED <<ret, pc>>
         [] OTHER ->
              /\ i' = i + 1
              /\ IF OnError(i + 1) = "return"
                 THEN ret' = ReturnPoints(p, TRUE) /\ pc' = "result"
                 ELSE UNCHANGED <<ret, pc>>
    /\ try_stage' = IF outcome = "ok" THEN StageOf(reached, dwelt) ELSE "none"
    /\ UNCHANGED <<test_mode, numberOfSearches, search_terms, search_i,
                   attempt, pointsCounter, ended, executed, refreshes,
                   noprogress, marked>>
    /\ UNCHANGED <<termVars, account, sideVars>>

(***************************************************************************)
(* Searches.bingSearches: what the loop body does with bingSearch's        *)
(* outcome (lines 507-529).                                                *)
(***************************************************************************)
RefreshAt == 2

\* except Exception: attempt += 1; refresh at attempt >= 2 (rOk: the refresh
\* returns). A refresh that raises here leaves the loop.
ExceptHandler(att, pts, nref, rOk) ==
    LET a == att + 1 IN
    IF a >= RefreshAt
    THEN IF rOk
         THEN [attempt |-> 0, pointsCounter |-> pts, refreshes |-> nref + 1,
               critical |-> FALSE, noprogress |-> TRUE]
         ELSE [attempt |-> a, pointsCounter |-> pts, refreshes |-> nref + 1,
               critical |-> TRUE, noprogress |-> TRUE]
    ELSE [attempt |-> a, pointsCounter |-> pts, refreshes |-> nref,
          critical |-> FALSE, noprogress |-> TRUE]

Progress(current_points, pts) == current_points > pts

LoopBodyAlwaysChecks(att, pts, r, test, r1, r2) ==
    IF r.raised THEN ExceptHandler(att, pts, 0, r1)
    ELSE IF Progress(r.points, pts)
    THEN [attempt |-> 0, pointsCounter |-> r.points, refreshes |-> 0,
          critical |-> FALSE, noprogress |-> FALSE]
    ELSE IF att + 1 >= RefreshAt
    THEN IF r1
         THEN [attempt |-> 0, pointsCounter |-> pts, refreshes |-> 1,
               critical |-> FALSE, noprogress |-> TRUE]
         ELSE ExceptHandler(att + 1, pts, 1, r2)
    ELSE [attempt |-> att + 1, pointsCounter |-> pts, refreshes |-> 0,
          critical |-> FALSE, noprogress |-> TRUE]

\* r1, r2: does the first, the second webdriver.refresh() call return.
LoopBody(att, pts, r, test, r1, r2) ==
    IF r.raised THEN ExceptHandler(att, pts, 0, r1)
    ELSE IF test
    THEN [attempt |-> att, pointsCounter |-> pts, refreshes |-> 0,
          critical |-> FALSE, noprogress |-> FALSE]
    ELSE IF Progress(r.points, pts)
    THEN [attempt |-> 0, pointsCounter |-> r.points, refreshes |-> 0,
          critical |-> FALSE, noprogress |-> FALSE]
    ELSE IF att + 1 >= RefreshAt
    THEN IF r1
         THEN [attempt |-> 0, pointsCounter |-> pts, refreshes |-> 1,
               critical |-> FALSE, noprogress |-> TRUE]
         ELSE ExceptHandler(att + 1, pts, 1, r2)
    ELSE [attempt |-> att + 1, pointsCounter |-> pts, refreshes |-> 0,
          critical |-> FALSE, noprogress |-> TRUE]

HandleResult(r1, r2) ==
    /\ pc = "result"
    /\ LET b == LoopBody(attempt, pointsCounter, ret, test_mode, r1, r2) IN
        /\ attempt' = b.attempt
        /\ pointsCounter' = b.pointsCounter
        /\ refreshes' = b.refreshes
        /\ noprogress' = b.noprogress
        /\ IF b.critical THEN EndCampaign("critical")
           ELSE pc' = "loop" /\ UNCHANGED ended
    /\ i' = 0
    /\ ret' = NoRet
    /\ tries' = 0
    /\ try_stage' = "none"
    /\ UNCHANGED <<test_mode, numberOfSearches, search_terms, search_i,
                   executed, marked>>
    /\ UNCHANGED <<termVars, extVars, account, sideVars>>

(***************************************************************************)
(* main.executeBot, lines 297-313: what the caller does when bingSearches  *)
(* has returned.  In test mode nothing is recorded; otherwise the call is  *)
(* made only for remainingSearches != 0 and is followed by mark_completed. *)
(***************************************************************************)
ExecuteBotRecords ==
    /\ pc = "done"
    /\ pc' = "returned"
    /\ marked' = (~test_mode /\ numberOfSearches # 0)
    /\ UNCHANGED <<test_mode, numberOfSearches, search_terms, search_i,
                   attempt, pointsCounter, i, ret, ended, executed, tries,
                   refreshes, noprogress, try_stage>>
    /\ UNCHANGED <<termVars, extVars, account, sideVars>>

(***************************************************************************)
(* The campaign runner.                                                    *)
(***************************************************************************)
Begin ==
    \E n \in 0..MaxWords, p0 \in PointsOutcomes, getOk \in BOOLEAN :
        BingSearchesBegin("crypto", n, p0, getOk, ReliableWrites)

Attempt ==
    \E outcome \in {"ok", "timeout", "error"}, p \in PointsOutcomes,
       reached \in BOOLEAN, dwelt \in BOOLEAN, soup \in CampaignPages :
        SearchAttempt("crypto", outcome, p, reached, dwelt, soup,
                      "ok", "ok", "ok")

Handle == \E r1 \in BOOLEAN, r2 \in BOOLEAN : HandleResult(r1, r2)

NextCampaign ==
    Begin \/ NextWord \/ Attempt \/ Handle \/ ExecuteBotRecords \/ NewSearches

SpecCampaign == Init /\ [][NextCampaign]_vars

(***************************************************************************)
(* The extractor and the sink on their own: any sequence of pages, with    *)
(* writes that may fail, and restarts.                                     *)
(***************************************************************************)
ExtractWords == {CRYPTO_SEARCH_TERMS[1]}

ExtractAndSave ==
    /\ pc = "idle"
    /\ extracts < MaxExtracts
    /\ \E word \in ExtractWords, soup \in Pages,
          o1 \in AllWrites, o2 \in AllWrites, o3 \in AllWrites :
            ProcessResults(word, soup, o1, o2, o3)
    /\ extracts' = extracts + 1
    /\ UNCHANGED <<termVars, campVars, loaded_from, account, sideVars, yesterday_file>>

NextExtract == ExtractAndSave \/ NewSearches

SpecExtract == Init /\ [][NextExtract]_vars

(***************************************************************************)
(* Two processes in one directory: this instance and the peer both work on *)
(* logs/remaining_crypto_terms.json.  A construction reads the file, a     *)
(* getCryptoList call works on the instance's own list and writes the      *)
(* file; nothing is locked and nothing is re-read.                         *)
(***************************************************************************)
\* the requests made while the directory is shared
SharedCounts == {1, 2}

SharedConstruct ==
    /\ ConstructOn(account, results_file)
    /\ peer' = [peer EXCEPT !.last = IF @ = "self" THEN "none" ELSE @]
    /\ UNCHANGED <<yesterday_file, completion_status, job>>

SharedTake ==
    /\ pc = "idle"
    /\ \E n \in SharedCounts : GetCryptoList(n, ReliableWrites)
    /\ peer' = [peer EXCEPT !.last = "self"]
    /\ UNCHANGED <<campVars, extVars, account, completion_status, job>>

PeerConstruct ==
    /\ peer' = [alive |-> TRUE,
                remaining |-> _load_remaining_terms(terms_file),
                selected |-> <<>>, reset |-> FALSE,
                last |-> IF peer.last = "peer" THEN "none" ELSE peer.last]
    /\ UNCHANGED <<termVars, campVars, extVars, account, completion_status,
                   job>>

PeerTake ==
    /\ peer.alive
    /\ \E n \in SharedCounts :
       \E r \in getCryptoList(peer.remaining, terms_file, n, "ok", "ok") :
          /\ peer' = [alive |-> TRUE, remaining |-> r.remaining,
                      selected |-> r.selected, reset |-> r.reset,
                      last |-> "peer"]
          /\ terms_file' = r.file
          /\ terms_writer' = IF r.file # terms_file THEN "peer"
                             ELSE terms_writer
    /\ UNCHANGED <<remaining_terms, used, wordsCount, selected_terms,
                   did_reset, last_save, last_trends>>
    /\ UNCHANGED <<campVars, extVars, account, completion_status, job>>

NextShared == SharedTake \/ SharedConstruct \/ PeerConstruct \/ PeerTake

SpecShared == Init /\ [][NextShared]_vars

(***************************************************************************)
(* main.main, process_account_with_retry and executeBot.  args.test is     *)
(* test_mode.  Every call into the browser, the login, the tasks and the   *)
(* notifier may raise; bingSearches catches what it raises (lines 479-543) *)
(* and closeBrowser suppresses it.                                         *)
(***************************************************************************)
\* the trackers main can load (lines 54-55): marks of an earlier run today
LoadedStatuses ==
    { {}, {<<"A", "desktop_searches">>, <<"A", "mobile_searches">>},
      {<<"A", c>> : c \in Categories} }

RunsTaskAlways(completed) == TRUE

\* if not completion_status.is_completed(account_email, ...)
RunsTask(completed) == ~completed

\* if args.test / elif remainingSearches != 0 and not is_completed(...)
RunsSearches(test, remaining, completed) ==
    test \/ (remaining # 0 /\ ~completed)

MarksWhenRun(test, remaining, completed) ==
    test \/ (remaining # 0 /\ ~completed)

\* mark_completed is called in the elif branch only
MarksSearches(test, remaining, completed) ==
    ~test /\ remaining # 0 /\ ~completed

NextStage(stage) ==
    CASE stage = "daily_set" -> "punch_cards"
      [] stage = "punch_cards" -> "more_promotions"
      [] stage = "more_promotions" -> "desktop_searches"
      [] stage = "desktop_searches" -> "mobile_searches"
      [] OTHER -> "report"

\* the task of category c is executed
Ran(j, c) ==
    [j EXCEPT !.runs[c] = @ + 1, !.ran_now = @ \cup {c}]

\* an exception leaves the try block for the handler of lines 434-447
Raised(j) == [j EXCEPT !.stage = "except"]

MainStart ==
    /\ job.stage = "boot"
    /\ \E st \in LoadedStatuses :
          /\ completion_status' = st
          /\ job' = NewJob(Head(job.todo), Tail(job.todo), st)
    /\ UNCHANGED <<termVars, campVars, extVars, account, peer>>

\* while retries > 0: try: executeBot(...)
InvokeExecuteBot ==
    /\ job.stage = "invoke"
    /\ job.retries > 0
    /\ job' = [job EXCEPT !.stage = "login", !.invocations = @ + 1,
                          !.ran_now = {}, !.remS = 0, !.remM = 0,
                          !.exited = "none"]
    /\ UNCHANGED <<termVars, campVars, extVars, account, peer,
                   completion_status>>

\* Browser(...), Login(desktopBrowser).login(): "Locked" and "Verify" return 0
LoginStep ==
    /\ job.stage = "login"
    /\ \E o \in {"ok", "Locked", "Verify", "raise"} :
          job' = CASE o = "ok" -> [job EXCEPT !.stage = "daily_set"]
                   [] o = "raise" -> Raised(job)
                   [] OTHER -> [job EXCEPT !.stage = "post",
                                           !.returned = @ + 1,
                                           !.exited = "locked"]
    /\ UNCHANGED <<termVars, campVars, extVars, account, peer,
                   completion_status>>

\* daily set, punch cards, more promotions (lines 264-283)
PromoTask ==
    /\ job.stage \in PromoCategories
    /\ LET c == job.stage IN
       IF RunsTask(is_completed(completion_status, job.account, c))
       THEN \E raises \in BOOLEAN :
              /\ job' = [Ran(job, c) EXCEPT
                           !.stage = IF raises THEN "except" ELSE NextStage(c)]
              /\ completion_status' =
                    IF raises THEN completion_status
                    ELSE mark_completed(completion_status, job.account, c)
       ELSE /\ job' = [job EXCEPT !.stage = NextStage(c)]
            /\ UNCHANGED completion_status
    /\ UNCHANGED <<termVars, campVars, extVars, account, peer>>

\* lines 286-321: before: getRemainingSearches raises; after: goHome,
\* getGoalPoints or getGoalTitle raises
DesktopSearches ==
    /\ job.stage = "desktop_searches"
    /\ \E rS \in {0, 1}, rM \in {0, 1}, before \in BOOLEAN, after \in BOOLEAN :
       LET c    == "desktop_searches"
           done == is_completed(completion_status, job.account, c)
           j    == IF RunsSearches(test_mode, rS, done) THEN Ran(job, c)
                   ELSE job
       IN IF before
          THEN job' = Raised(job) /\ UNCHANGED completion_status
          ELSE /\ job' = [j EXCEPT !.remS = rS, !.remM = rM,
                                  !.stage = IF after THEN "except"
                                            ELSE NextStage(c)]
               /\ completion_status' =
                     IF MarksSearches(test_mode, rS, done)
                     THEN mark_completed(completion_status, job.account, c)
                     ELSE completion_status
    /\ UNCHANGED <<termVars, campVars, extVars, account, peer>>

\* lines 325-350: before: Browser(mobile=True) or the login raises; after:
\* goHome, getGoalPoints or getGoalTitle of the elif branch raises
MobileSearches ==
    /\ job.stage = "mobile_searches"
    /\ \E before \in BOOLEAN, after \in BOOLEAN :
       LET c    == "mobile_searches"
           done == is_completed(completion_status, job.account, c)
       IN IF ~RunsSearches(test_mode, job.remM, done)
          THEN /\ job' = [job EXCEPT !.stage = NextStage(c)]
               /\ UNCHANGED completion_status
          ELSE IF before
          THEN job' = Raised(job) /\ UNCHANGED completion_status
          ELSE /\ job' = [Ran(job, c) EXCEPT
                            !.stage = IF after /\ ~test_mode THEN "except"
                                      ELSE NextStage(c)]
               /\ completion_status' =
                     IF MarksSearches(test_mode, job.remM, done)
                     THEN mark_completed(completion_status, job.account, c)
                     ELSE completion_status
    /\ UNCHANGED <<termVars, campVars, extVars, account, peer>>

\* lines 352-375: the summary and notifier.send, then return
Report ==
    /\ job.stage = "report"
    /\ \E raises \in BOOLEAN :
          job' = IF raises THEN Raised(job)
                 ELSE [job EXCEPT !.stage = "post", !.returned = @ + 1,
                                  !.exited = "reported"]
    /\ UNCHANGED <<termVars, campVars, extVars, account, peer,
                   completion_status>>

\* lines 420-433, inside the try: log_daily_points_to_csv opens
\* logs/points_data.csv and may raise; then previous_points_data is updated
PostProcess ==
    /\ job.stage = "post"
    /\ \E csvRaises \in BOOLEAN :
          job' = IF csvRaises THEN Raised(job)
                 ELSE [job EXCEPT !.stage = "done", !.rows = @ + 1,
                                  !.updated = @ + 1]
    /\ UNCHANGED <<termVars, campVars, extVars, account, peer,
                   completion_status>>

\* except Exception (lines 434-447)
OnException ==
    /\ job.stage = "except"
    /\ job' = IF job.retries - 1 = 0
              THEN [job EXCEPT !.retries = 0, !.notified = @ + 1,
                               !.stage = "done"]
              ELSE [job EXCEPT !.retries = @ - 1, !.stage = "invoke"]
    /\ UNCHANGED <<termVars, campVars, extVars, account, peer,
                   completion_status>>

\* for currentAccount in loadedAccounts (lines 58-61)
NextInLoop ==
    /\ job.stage = "done"
    /\ job.todo # <<>>
    /\ job' = NewJob(Head(job.todo), Tail(job.todo), job.loaded)
    /\ UNCHANGED <<termVars, campVars, extVars, account, peer,
                   completion_status>>

NextMain ==
    \/ MainStart \/ InvokeExecuteBot \/ LoginStep \/ PromoTask
    \/ DesktopSearches \/ MobileSearches \/ Report \/ PostProcess
    \/ OnException \/ NextInLoop

SpecMain == Init /\ [][NextMain]_vars

(***************************************************************************)
(* A run with --search-source trends: every Searches instance is built     *)
(* with search_source "trends", whose constructor loads and creates        *)
(* nothing (lines 207-211).                                                *)
(***************************************************************************)
NewTrendsSearches ==
    /\ \E t \in BOOLEAN : test_mode' = t
    /\ IdleCampaign
    /\ UNCHANGED <<termVars, extVars, account, sideVars>>

TrendsBegin ==
    \E n \in 0..MaxWords, p0 \in PointsOutcomes, getOk \in BOOLEAN :
        BingSearchesBegin("trends", n, p0, getOk, AllWrites)

TrendsAttempt ==
    \E outcome \in {"ok", "timeout", "error"}, p \in PointsOutcomes,
       reached \in BOOLEAN, dwelt \in BOOLEAN, soup \in CampaignPages,
       o \in AllWrites :
        SearchAttempt("trends", outcome, p, reached, dwelt, soup, o, o, o)

NextTrends ==
    \/ TrendsBegin \/ NextWord \/ TrendsAttempt \/ Handle
    \/ ExecuteBotRecords \/ NewTrendsSearches

SpecTrends == Init /\ [][NextTrends]_vars

(***************************************************************************)
(* Searches._cleanup_seen_urls.  Two day files are kept, today's and       *)
(* yesterday's, so the argument days_to_keep ranges over 0..2.             *)
(***************************************************************************)
Retentions == 0..2

\* the URLs of the result records of a day file
FileUrls(file) ==
    IF file.st = "json"
    THEN UNION { Range(CardUrls(file.data[k].results)) :
                 k \in 1..Len(file.data) }
    ELSE {}

TodayOnly(d) == IF d >= 1 THEN <<results_file>> ELSE <<>>

\* the day files of today - i for i in range(days_to_keep)
RecentFiles(d) ==
    IF d >= 2 THEN <<results_file, yesterday_file>>
    ELSE IF d = 1 THEN <<results_file>>
    ELSE <<>>

CleanupKeepsPartial(d, seen, sfile, outcome) ==
    LET files == RecentFiles(d)
        recent_urls == UNION {FileUrls(files[k]) : k \in 1..Len(files)}
    IN IF \E k \in 1..Len(files) : files[k].st = "corrupt"
       THEN [ok |-> FALSE, seen |-> recent_urls, file |-> sfile]
       ELSE [ok |-> TRUE, seen |-> recent_urls,
             file |-> _save_seen_urls(sfile, recent_urls, outcome)]

\* A day file that does not parse makes json.load raise: the except clause
\* logs and nothing is changed.  outcome: the write of the seen-URLs file.
_cleanup_seen_urls(d, seen, sfile, outcome) ==
    LET files == RecentFiles(d) IN
    IF \E k \in 1..Len(files) : files[k].st = "corrupt"
    THEN [ok |-> FALSE, seen |-> seen, file |-> sfile]
    ELSE LET recent_urls == UNION {FileUrls(files[k]) : k \in 1..Len(files)}
         IN [ok |-> TRUE, seen |-> recent_urls,
             file |-> _save_seen_urls(sfile, recent_urls, outcome)]

CleanupSeenUrls ==
    /\ pc = "idle"
    /\ \E d \in Retentions, o \in AllWrites :
       \E c \in {_cleanup_seen_urls(d, seen_urls, seen_file, o)} :
          /\ seen_urls' = c.seen
          /\ seen_file' = c.file
          /\ seen_writer' = IF c.file # seen_file THEN account ELSE seen_writer
          /\ last_op' = IF c.ok
                        THEN [op |-> "cleanup", days |-> d, saved |-> o = "ok"]
                        ELSE Op("cleanup_failed")
    /\ UNCHANGED <<search_results, results_file, outputs, refed, last_soup,
                   last_result, extracts, loaded_from, save_from,
                   yesterday_file>>
    /\ UNCHANGED <<termVars, campVars, account, sideVars>>

\* the pages fed next to the maintenance operation
CleanupPages == {Soup(Window(1, 1)), Soup(<<Card(BlockedUrl)>> \o Window(2, 1))}

ExtractForCleanup ==
    /\ pc = "idle"
    /\ extracts < MaxExtracts
    /\ \E word \in ExtractWords, soup \in CleanupPages,
          o1 \in AllWrites, o2 \in AllWrites, o3 \in AllWrites :
            ProcessResults(word, soup, o1, o2, o3)
    /\ extracts' = extracts + 1
    /\ UNCHANGED <<termVars, campVars, loaded_from, account, sideVars, yesterday_file>>

NextCleanup == ExtractForCleanup \/ CleanupSeenUrls \/ NewSearches \/ NextDay

SpecCleanup == Init /\ [][NextCleanup]_vars

(***************************************************************************)
(* main.main: the campaigns of the accounts, one account after the other.  *)
(***************************************************************************)
NextAccounts == NextCampaign \/ NextAccount

SpecAccounts == Init /\ [][NextAccounts]_vars

(***************************************************************************)
(* Properties of the term registry (SpecTerms).                            *)
(***************************************************************************)
\* C1: ledger conservation. Every term of the universe is in exactly one of
\* the ledger and the terms returned in the current cycle, and the size of
\* the ledger plus the number of terms returned in the cycle is the size of
\* the universe.
LedgerConservation ==
    /\ \A t \in Range(CRYPTO_SEARCH_TERMS) :
          (t \in Range(remaining_terms)) # BagIn(t, used)
    /\ Len(remaining_terms) + BagCardinality(used) = Len(CRYPTO_SEARCH_TERMS)

\* C2: across getCryptoList calls and restarts, no term is returned a second
\* time before the ledger has been emptied and reset: every term returned in
\* the current cycle has been returned once.
NoRepeatInCycle == \A t \in BagToSet(used) : CopiesIn(t, used) = 1

\* C3: getCryptoList(n) with 1 <= n <= size of the universe returns n terms,
\* never a shorter batch.
NeverShortBatch ==
    (wordsCount >= 1 /\ wordsCount <= Len(CRYPTO_SEARCH_TERMS))
        => Len(selected_terms) = wordsCount

(***************************************************************************)
(* Properties of the ledger file (SpecLedger).                             *)
(***************************************************************************)
\* C30: a getCryptoList(n) call with n greater than the size of the universe
\* returns at most as many terms as the universe has (it does not start a
\* second cycle within the call) and no term twice.
OversizedTakeOnce ==
    wordsCount > Len(CRYPTO_SEARCH_TERMS) =>
        /\ Len(selected_terms) <= Len(CRYPTO_SEARCH_TERMS)
        /\ \A j \in 1..Len(selected_terms), k \in 1..Len(selected_terms) :
              selected_terms[j] = selected_terms[k] => j = k

LedgerOnConstruction ==
    last_save = "none" =>
        /\ (terms_file.st = "json" /\ terms_file.data # <<>>)
              => remaining_terms = terms_file.data
        /\ (terms_file.st \in {"absent", "corrupt"}
              \/ (terms_file.st = "json" /\ terms_file.data = <<>>))
              => remaining_terms = CRYPTO_SEARCH_TERMS

\* an instance was constructed on a corrupt remaining-terms file
CorruptLedgerWitness ==
    /\ last_save = "none"
    /\ terms_file.st = "corrupt"
    /\ remaining_terms = CRYPTO_SEARCH_TERMS

(***************************************************************************)
(* Properties of the campaign runner (SpecCampaign).                       *)
(***************************************************************************)
\* C4: a campaign with target count N that ends completed has invoked
\* bingSearch once per term, in the order obtained, N times in total.
CompletedMeansAllProcessed ==
    (pc = "done" /\ ended = "completed")
        => (executed = search_terms /\ Len(executed) = numberOfSearches)

\* C5: bounded retry. bingSearch performs at most 10 attempts of a term
\* before it returns control to bingSearches.
BoundedRetry == tries <= 10

\* C6: a failed term (retry budget used up, or an exception that leaves
\* bingSearch) never ends the campaign: the loop goes on with the next term.
TermFailed == ret.raised \/ ret.aborted

FailedTermNotFatal ==
    [][(pc = "result" /\ TermFailed) => ~(pc' = "done" /\ ended' = "critical")]_vars

\* C7: when the second of two consecutive no-progress events is processed,
\* exactly one webdriver.refresh call is made and the counter is reset to 0;
\* a single no-progress event, and a term with progress, make no refresh call.
OneRefreshPerTwoNoProgress ==
    [][(pc = "result" /\ pc' # "idle") =>
          /\ (attempt = 1 /\ noprogress') => (refreshes' = 1 /\ attempt' = 0)
          /\ (attempt = 0 \/ ~noprogress') => refreshes' = 0]_vars

\* C17: in test mode the point total a search returns changes nothing: the
\* step that handles it leaves the no-progress counter and the terms alone,
\* makes no refresh call and goes on with the loop, so that no term is left
\* out because of a point total; a test campaign that completes has
\* attempted every term it obtained.
TestModeSkipsPointChecks ==
    [][(test_mode /\ pc' # "idle") =>
          /\ (pc = "result" /\ ~ret.raised) =>
                /\ attempt' = attempt
                /\ refreshes' = 0
                /\ search_terms' = search_terms
                /\ executed' = executed
                /\ pc' = "loop"
          /\ (pc' = "done" /\ ended' = "completed") =>
                executed' = search_terms']_vars

\* test mode: two searches in a row returned without a point increase and
\* the counter is still 0, without a refresh
TestModeWitness ==
    /\ test_mode
    /\ pc = "loop"
    /\ search_i >= 2
    /\ ~noprogress
    /\ attempt = 0
    /\ refreshes = 0
    /\ pointsCounter = 0

\* C18: the value bingSearches hands back (pointsCounter at its return) is
\* the point total last reported by a search of the campaign, in normal and
\* in test mode: once a search has reported a total, pointsCounter is that
\* total.
ReturnsLastReportedTotal ==
    [][(pc = "result" /\ ~ret.raised /\ pc' # "idle")
          => pointsCounter' = ret.points]_vars

\* C19: a campaign that obtained no term at all has executed no query and
\* the caller has not recorded its searches as completed.
NoTermsNotRecorded ==
    (pc = "returned" /\ search_terms = <<>>)
        => (executed = <<>> /\ ~marked)

TimeoutRetryContinues ==
    [][(pc = "search" /\ pc' # "idle") =>
          /\ (i = TimeoutProxyAt /\ pc' = "result") =>
                (~ret'.raised /\ ~ret'.aborted)
          /\ i = TimeoutAbortAt =>
                (pc' = "result" /\ (ret'.aborted \/ ~ret'.raised))]_vars

\* C23: the counter counts consecutive no-progress events: a refresh call is
\* made only when the term processed before and the term processed now were
\* both no-progress events, and a term that is not a no-progress event (in
\* test mode: a term that returned without an exception) leaves the counter
\* at 0.
ConsecutiveNoProgressOnly ==
    [][(pc = "result" /\ pc' # "idle") =>
          /\ refreshes' > 0 => (noprogress /\ noprogress')
          /\ ~noprogress' => attempt' = 0]_vars

AbortedOnlyOnSetupFailure ==
    (pc \in {"done", "returned"} /\ executed # <<>>)
        => (ended = "completed" /\ executed = search_terms)

TrendsTouchesNoStore ==
    [][UNCHANGED <<remaining_terms, terms_file, used, did_reset, last_save,
                   seen_urls, seen_file, search_results, results_file,
                   yesterday_file, outputs, loaded_from, save_from,
                   last_op>>]_vars

\* a trends search whose try block went past the extraction stage and the
\* dwell, the three stores being as the run found them
TrendsWitness ==
    /\ pc = "result"
    /\ try_stage = "dwelt"
    /\ last_trends.fetched # <<>>
    /\ executed # <<>>
    /\ executed[1] \in {TrendQuery("a"), TrendQuery("b")}
    /\ terms_file = AbsentFile(<<>>)
    /\ seen_file.st = "absent"
    /\ results_file = JsonFile(<<>>)

\* C38: a getGoogleTrends(n) call ends after at most 3 fetches, hands back
\* at most n terms, and when the fetches produced no term at all hands back
\* the first n terms of CRYPTO_SEARCH_TERMS; the call changes neither the
\* ledger in memory nor the ledger file.
TrendsBoundedFallback ==
    /\ [](/\ last_trends.fetches <= 3
          /\ Len(selected_terms) <= wordsCount
          /\ last_trends.fetched = <<>> =>
                 selected_terms =
                     SubSeq(CRYPTO_SEARCH_TERMS, 1,
                            Min(wordsCount, Len(CRYPTO_SEARCH_TERMS))))
    /\ [][(last_trends' # last_trends \/ selected_terms' # selected_terms)
              => UNCHANGED <<remaining_terms, terms_file, used, did_reset,
                             last_save>>]_vars

\* three fetches that produced nothing, answered by the first two terms of
\* the universe, the ledger file never having been created
TrendsFallbackWitness ==
    /\ last_trends = [fetches |-> 3, fetched |-> <<>>]
    /\ wordsCount = 2
    /\ selected_terms = SubSeq(CRYPTO_SEARCH_TERMS, 1, 2)
    /\ pc # "idle"
    /\ terms_file = AbsentFile(<<>>)

\* C32: nothing is locked or merged: after a getCryptoList call the ledger
\* file is the list of the instance that made the call, whatever the other
\* instance had written before (the later persist replaces the earlier); the
\* witness is the reachable interleaving in which both instances are handed
\* the same term in one cycle and the file offers again a term already
\* handed out.
LastPersistWins ==
    /\ peer.last = "self" => terms_file = JsonFile(remaining_terms)
    /\ peer.last = "peer" => terms_file = JsonFile(peer.remaining)

\* both instances loaded the full ledger and called once; a term is handed
\* out more often than the universe has it; the file, written by the peer,
\* still holds a term this instance has handed out
LostUpdateWitness ==
    /\ peer.alive /\ peer.last = "peer"
    /\ ~did_reset /\ ~peer.reset
    /\ BagOfSeq(remaining_terms \o selected_terms)
          = BagOfSeq(CRYPTO_SEARCH_TERMS)
    /\ BagOfSeq(peer.remaining \o peer.selected)
          = BagOfSeq(CRYPTO_SEARCH_TERMS)
    /\ \E t \in Range(selected_terms) :
          Count(t, selected_terms) + Count(t, peer.selected)
              > Count(t, CRYPTO_SEARCH_TERMS)
    /\ terms_file = JsonFile(peer.remaining)
    /\ \E u \in Range(selected_terms) :
          Count(u, terms_file.data) + Count(u, selected_terms)
              > Count(u, CRYPTO_SEARCH_TERMS)

\* C35: process_account_with_retry invokes executeBot at most 3 times for an
\* account and not again once an invocation has returned; a CSV row is
\* logged and previous_points_data updated only after an invocation that
\* returned; the failure notification is sent at most once, and only when
\* 3 invocations were made and none returned.
RetryStopsAtFirstReturn ==
    /\ job.invocations <= Retries
    /\ job.returned <= 1
    /\ (job.rows > 0 \/ job.updated > 0) => job.returned > 0
    /\ job.notified <= 1
    /\ job.notified = 1 => (job.invocations = Retries /\ job.returned = 0)

\* C36: outside test mode a step of executeBot that executes the task of a
\* category does so only while the category is not marked completed for the
\* account, in the first invocation and in the retries alike; and a mark is
\* never taken back.
CompletedNeverRerun ==
    [][~test_mode =>
         /\ \A c \in Categories :
               job'.runs[c] > job.runs[c]
                   => ~is_completed(completion_status, job.account, c)
         /\ completion_status \subseteq completion_status']_vars

\* a retry has skipped the daily set it had completed and marked in an
\* earlier invocation, and has run a task it had not completed
SkippedInRetryWitness ==
    /\ ~test_mode
    /\ job.invocations >= 2
    /\ job.stage = "desktop_searches"
    /\ job.runs["daily_set"] = 1
    /\ "daily_set" \notin job.ran_now
    /\ is_completed(completion_status, job.account, "daily_set")
    /\ "more_promotions" \in job.ran_now

\* C37: in test mode an executeBot invocation that gets as far as its report
\* has run the desktop and the mobile search campaign, whatever is marked
\* completed, and no step marks a search category completed.
TestModeBypassesCompletion ==
    test_mode =>
        /\ job.exited = "reported" => SearchCategories \subseteq job.ran_now
        /\ job.stage = "report" => SearchCategories \subseteq job.ran_now
        /\ \A acc \in Accounts, c \in SearchCategories :
              is_completed(completion_status, acc, c)
                  => is_completed(job.loaded, acc, c)

\* a test-mode invocation has run both campaigns although both search
\* categories were marked completed for the account, and has returned
TestModeRerunWitness ==
    /\ test_mode
    /\ job.exited = "reported"
    /\ \A c \in SearchCategories :
          /\ is_completed(completion_status, job.account, c)
          /\ c \in job.ran_now

\* C20: the persisted state an account's instance uses is its own: the
\* remaining-terms file and the seen-URLs file it reads and writes were
\* changed by no campaign of another account.
IsolatedAccountState ==
    /\ terms_writer \in {"none", account}
    /\ seen_writer \in {"none", account}

(***************************************************************************)
(* Properties of the extractor and the sink (SpecExtract).                 *)
(***************************************************************************)
\* C8: idempotent dedup. Every URL this process has extracted is in
\* seen_urls at every later state of the process, no URL is in the outputs
\* of extractSearchResults twice, and a URL whose card was fed again after
\* its extraction (in the same page or in a later one) is in the outputs
\* exactly once.
IdempotentDedup ==
    /\ BagToSet(outputs) \subseteq seen_urls
    /\ \A u \in BagToSet(outputs) : CopiesIn(u, outputs) = 1
    /\ \A u \in refed : CopiesIn(u, outputs) = 1

\* a URL was extracted, then fed once more, and is in the outputs once
DedupWitness ==
    \E u \in refed : CopiesIn(u, outputs) = 1 /\ u \in seen_urls

\* C13: an instance constructed on a missing or corrupt seen-URLs file starts
\* from the empty set and goes on normally: its seen set is, at every later
\* state, the set of the URLs it has extracted itself.
FailOpenSeenUrls ==
    loaded_from \in {"absent", "corrupt"} => seen_urls = BagToSet(outputs)

\* an instance constructed on a corrupt seen-URLs file has extracted results
FailOpenWitness ==
    /\ loaded_from = "corrupt"
    /\ last_result.results # <<>>
    /\ last_result.status = "success"

\* C14: a card whose link is a bing.com/ck/a redirect to a blocklisted domain
\* is filtered out: no record returned by extractSearchResults has a
\* redirect-wrapped URL whose target host is blocklisted.
WrappedBlockedFiltered ==
    \A k \in 1..Len(last_result.results) :
        LET u == last_result.results[k].url IN
        ~(u.wrap # "none" /\ IsBlocked(u.host))

\* C15: extractSearchResults always returns a result: a page whose parsing
\* fails gives status "error" and no records; any other page gives status
\* "success", a malformed card is skipped and, unless the cap of 8 records
\* was reached, every well-formed card of the page whose domain is not
\* blocked has its URL extracted (now or before).
ExtractNeverRaises ==
    /\ last_result.status \in {"success", "error"}
    /\ ~last_soup.ok =>
          (last_result.status = "error" /\ last_result.results = <<>>)
    /\ last_soup.ok =>
          /\ last_result.status = "success"
          /\ Len(last_result.results) < 8 =>
                \A k \in 1..Len(last_soup.cards) :
                    LET c == last_soup.cards[k] IN
                    (c.kind = "card" /\ ~IsBlocked(DomainOf(c.url)))
                        => c.url \in seen_urls

\* a card that follows a malformed card of its page has been extracted
MalformedSkippedWitness ==
    \E j, k \in 1..Len(last_soup.cards) :
        /\ j < k
        /\ last_soup.cards[j].kind = "malformed"
        /\ last_soup.cards[k].url \in Range(CardUrls(last_result.results))

\* C16: after a successful saveSearchResults the day file holds the batches
\* it held before (none if it was corrupt or absent) followed by the pending
\* batches in order, and the pending list is empty.
SaveAppends ==
    save_from.found # "none" =>
        /\ search_results = <<>>
        /\ results_file =
              JsonFile((IF save_from.found = "json" THEN save_from.existing
                        ELSE <<>>) \o save_from.pending)

\* a save that found a corrupt day file has written two pending batches
SaveOverCorruptWitness ==
    /\ save_from.found = "corrupt"
    /\ Len(save_from.pending) = 2
    /\ results_file = JsonFile(save_from.pending)

\* C26: the seen-URL set loses no element by extraction, saving or campaign
\* execution: a step after which an element of the set is gone is a
\* _cleanup_seen_urls call, or the construction of a new instance (which
\* loads the set from its file); cleanup is a step of its own, part of no
\* other operation.
OnlyCleanupShrinks ==
    [][~(seen_urls \subseteq seen_urls')
          => last_op'.op \in {"cleanup", "construct"}]_vars

\* a cleanup has dropped a URL this instance had extracted
CleanupShrinksWitness ==
    /\ last_op.op = "cleanup"
    /\ \E u \in BagToSet(outputs) : u \notin seen_urls

\* C34: a _cleanup_seen_urls call that fails while it reads a day file of
\* its window leaves the seen-URL set as it was, in memory and in its file,
\* and returns (the step completes).
FailedCleanupChangesNothing ==
    [][last_op'.op = "cleanup_failed"
          => (seen_urls' = seen_urls /\ seen_file' = seen_file)]_vars

\* a cleanup has failed on a day file that does not parse, the set it left
\* alone holding URLs
FailedCleanupWitness ==
    /\ last_op.op = "cleanup_failed"
    /\ results_file.st = "corrupt" \/ yesterday_file.st = "corrupt"
    /\ seen_urls # {}
    /\ seen_file = JsonFile(seen_urls)

\* C27: after a _cleanup_seen_urls(d) that went through, the seen-URL set is
\* the set of the URLs of the result records of the day files of the last d
\* days, in memory and, its write having succeeded, in the seen-URLs file.
CleanupRebuilds ==
    last_op.op = "cleanup" =>
        LET recent ==
              (IF last_op.days >= 1 THEN FileUrls(results_file) ELSE {})
              \cup (IF last_op.days >= 2 THEN FileUrls(yesterday_file)
                    ELSE {})
        IN /\ seen_urls = recent
           /\ last_op.saved => seen_file = JsonFile(recent)

\* cleanup(1) has discarded a URL of yesterday's file and kept today's URLs
CleanupWitness ==
    /\ last_op.op = "cleanup"
    /\ last_op.days = 1
    /\ last_op.saved
    /\ seen_urls # {}
    /\ seen_urls = FileUrls(results_file)
    /\ \E u \in FileUrls(yesterday_file) : u \notin seen_urls

\* C33: an extraction with results appends its batch and saves; when the
\* save fails the batches pending before are still pending, in their order,
\* followed by the new one, and the step completes (nothing is raised); when
\* it succeeds the file is what it held (nothing, if it did not parse)
\* followed by the pending batches in their order and then the new one.  An
\* extraction without results leaves the pending batches alone.
FailedSaveKeepsPending ==
    [][extracts' = extracts + 1 =>
         IF last_result'.results = <<>>
         THEN search_results' = search_results
         ELSE \E w \in ExtractWords :
                LET batch == [search_term |-> w, timestamp |-> extracts,
                              results |-> last_result'.results]
                    all   == Append(search_results, batch)
                IN \/ search_results' = all
                   \/ /\ search_results' = <<>>
                      /\ results_file'
                           = JsonFile(ExistingResults(results_file) \o all)]_vars

\* a successful save that wrote a batch left pending by a failed save ahead
\* of the newer one
PendingWrittenInOrder ==
    /\ Len(save_from.pending) >= 2
    /\ save_from.pending[1].timestamp < save_from.pending[2].timestamp
    /\ results_file = JsonFile(ExistingResults([st |-> save_from.found,
                                                data |-> save_from.existing])
                               \o save_from.pending)

\* C28: over extractions, successful and failed saves and restarts, every
\* extracted batch (told apart by its timestamp) is at most once among the
\* records of the day file and the batches still pending, and a batch of the
\* file is not pending any more: no batch is written twice.
NoDuplicateWrite ==
    LET all == ExistingResults(results_file) \o search_results IN
    \A j \in 1..Len(all), k \in 1..Len(all) :
        all[j].timestamp = all[k].timestamp => j = k

\* a save has written a batch whose first save had failed, with a later one
SavedAfterFailedSave ==
    /\ results_file.st = "json"
    /\ Len(save_from.pending) >= 2
    /\ search_results = <<>>
    /\ Len(results_file.data) >= 2

\* the URLs of the records persisted in the day file, with repetitions
RECURSIVE PersistedUrls(_)
PersistedUrls(batches) ==
    IF batches = <<>> THEN <<>>
    ELSE CardUrls(Head(batches).results) \o PersistedUrls(Tail(batches))

\* C9: no URL occurs twice among the result records persisted in the day
\* file, whatever the searches, retries and restarts (a restart that falls
\* back to the empty seen set included).
NoDuplicatePersistedUrl ==
    LET urls == PersistedUrls(ExistingResults(results_file)) IN
    \A u \in Range(urls) : Count(u, urls) = 1

\* C10: extractSearchResults returns at most 8 records for a page, in page
\* order: the URLs returned are a subsequence of the URLs of the cards.
ResultCap ==
    /\ Len(last_result.results) <= 8
    /\ IsSubseq(CardUrls(last_result.results), CardUrls(last_soup.cards))

\* a page of more than 8 extractable cards has been cut to 8 records
ResultCapWitness ==
    /\ Len(last_soup.cards) > 8
    /\ Len(last_result.results) = 8

=============================================================================
